---- MODULE Spec2Model ----
(***************************************************************************)
(* Model of app.py: the concept-map navigator (tree functions over the     *)
(* loaded JSON document), the Telegram relay (send_telegram_message,       *)
(* send_multiple_telegram_messages), the OpenAI client (ask_openai) and    *)
(* the Streamlit session handled by main().                                *)
(*                                                                         *)
(* A JSON value is a record.  A JSON object is a record whose fields are   *)
(* the keys it has, so that Python's `"k" in node` is "k" \in DOMAIN node; *)
(* a JSON value that is no object is the record Scalar.  A children        *)
(* mapping is the sequence of its items [key, node] in the dict's          *)
(* iteration (insertion) order, with distinct keys.                        *)
(***************************************************************************)
EXTENDS Integers, Sequences, FiniteSets, TLC

(***************************************************************************)
(* Bounds of the model.                                                    *)
(***************************************************************************)
MaxNodes == 4
MaxMessages == 3
MaxAnswer == 2

Keys == {"a", "b"}

(***************************************************************************)
(* Python values.                                                          *)
(***************************************************************************)
Scalar == [scalar |-> "s"]
None == [none |-> "None"]
KeyError == [raise |-> "KeyError"]

isinstance_dict(node) == DOMAIN node \subseteq {"title", "message", "children"}

\* `k in d` for a children mapping d
DictHas(d, k) == \E i \in 1..Len(d) : d[i].key = k

\* `d[k]` for a children mapping d
DictGet(d, k) ==
  IF DictHas(d, k)
    THEN d[CHOOSE i \in 1..Len(d) : d[i].key = k].node
    ELSE KeyError

\* `node[f]` for a JSON object
GetItem(node, f) == IF f \in DOMAIN node THEN node[f] ELSE KeyError

\* `node.get(f, default)`
DictGetDefault(node, f, default) == IF f \in DOMAIN node THEN node[f] ELSE default

(***************************************************************************)
(* The documents: every tree of at most MaxNodes nodes over Keys.          *)
(***************************************************************************)
\* A text is the sequence of its pieces, so that texts can be concatenated
\* and escaped piece by piece.
LeafAtoms == {[message |-> <<"M">>], [message |-> <<"N">>, title |-> "T"]}

\* a JSON null is Python's None; Scalar stands for a string, number or list
Atoms == LeafAtoms \cup {Scalar, None, [title |-> "T"]}

\* the children mappings of m nodes in all with keys from ks, tab[s] being
\* the trees of s nodes
RECURSIVE Forests(_, _, _)
Forests(tab, m, ks) ==
  IF m = 0 THEN {<<>>}
  ELSE UNION {UNION {{<<[key |-> k, node |-> t]>> \o rest :
                        t \in tab[s], rest \in Forests(tab, m - s, ks \ {k})} :
                     s \in 1..m} :
              k \in ks}

\* the trees of Len(tab) + 1 nodes: a node without children, or a node with
\* children, with or without a message beside them
TreesOfNextSize(tab) ==
  (IF tab = <<>> THEN Atoms ELSE {})
    \cup {[children |-> f] : f \in Forests(tab, Len(tab), Keys)}
    \cup {[children |-> f, message |-> <<"B">>] : f \in Forests(tab, Len(tab), Keys)}

\* <<the trees of 1 node, ..., the trees of n nodes>>
RECURSIVE TreeTable(_)
TreeTable(n) ==
  IF n = 0 THEN <<>>
  ELSE LET tab == TreeTable(n - 1) IN Append(tab, TreesOfNextSize(tab))

Trees(n) == LET tab == TreeTable(n) IN UNION {tab[k] : k \in 1..n}

RECURSIVE PathsOfLen(_)
PathsOfLen(n) ==
  IF n = 0 THEN {<<>>}
  ELSE {<<k>> \o p : k \in Keys, p \in PathsOfLen(n - 1)}

\* the deepest node of a tree of MaxNodes nodes is MaxNodes - 1 keys down
Paths == UNION {PathsOfLen(n) : n \in 0..(MaxNodes - 1)}

(***************************************************************************)
(* Tree navigator.                                                         *)
(***************************************************************************)
\* is_leaf, but a node with a message is a leaf whether or not it has children
is_leaf_message_only(node) ==
  IF isinstance_dict(node)
    THEN "message" \in DOMAIN node
    ELSE FALSE

is_leaf(node) ==
  IF isinstance_dict(node)
    THEN "message" \in DOMAIN node /\ "children" \notin DOMAIN node
    ELSE FALSE

\* the children mapping is returned as [items |-> it], which can be told
\* from None
get_children(node) ==
  IF isinstance_dict(node) /\ "children" \in DOMAIN node
    THEN [items |-> GetItem(node, "children")]
    ELSE None

\* NavigateStep, but a key that is not there leaves `current` where it is
NavigateStepSkipsMissing(current, key) ==
  IF isinstance_dict(current)
    THEN IF "children" \in DOMAIN current /\ DictHas(GetItem(current, "children"), key)
           THEN DictGet(GetItem(current, "children"), key)
           ELSE current
    ELSE None

\* one iteration of navigate_to_path's loop: the next `current`, or None
\* for the two `return None` (a null child is None too: the loop then
\* returns None at its next iteration, or at its end)
NavigateStep(current, key) ==
  IF isinstance_dict(current)
    THEN IF "children" \in DOMAIN current /\ DictHas(GetItem(current, "children"), key)
           THEN DictGet(GetItem(current, "children"), key)
           ELSE None
    ELSE None

RECURSIVE navigate_from(_, _)
navigate_from(current, path) ==
  IF path = <<>> THEN current
  ELSE LET next == NavigateStep(current, Head(path))
       IN IF next = None THEN None ELSE navigate_from(next, Tail(path))

navigate_to_path(data, path) == navigate_from(data, path)

RECURSIVE count_nodes(_), count_nodes_values(_)
\* count_nodes_values, but a child does not count itself
count_nodes_values_no_self(items) ==
  IF items = <<>> THEN 0
  ELSE count_nodes(Head(items).node) + count_nodes_values(Tail(items))

\* the loop of count_nodes over node["children"].values()
count_nodes_values(items) ==
  IF items = <<>> THEN 0
  ELSE (1 + count_nodes(Head(items).node)) + count_nodes_values(Tail(items))

count_nodes(node) ==
  IF isinstance_dict(node)
    THEN IF "children" \in DOMAIN node
           THEN count_nodes_values(GetItem(node, "children"))
           ELSE 0
    ELSE 0

RECURSIVE count_leaves(_), count_leaves_values(_)
\* the loop of count_leaves over node["children"].values()
count_leaves_values(items) ==
  IF items = <<>> THEN 0
  ELSE count_leaves(Head(items).node) + count_leaves_values(Tail(items))

count_leaves(node) ==
  IF is_leaf(node) THEN 1
  ELSE IF isinstance_dict(node) /\ "children" \in DOMAIN node
         THEN count_leaves_values(GetItem(node, "children"))
         ELSE 0

DefaultTitle == "Senza titolo"

RECURSIVE collect_all_leaves(_, _), collect_all_leaves_items(_, _)
\* collect_all_leaves_items, but the children are walked last to first
collect_all_leaves_items_reversed(items, current_path) ==
  IF items = <<>> THEN <<>>
  ELSE collect_all_leaves_items(Tail(items), current_path)
         \o collect_all_leaves(Head(items).node, Append(current_path, Head(items).key))

\* the loop of collect_all_leaves over node["children"].items()
collect_all_leaves_items(items, current_path) ==
  IF items = <<>> THEN <<>>
  ELSE collect_all_leaves(Head(items).node, Append(current_path, Head(items).key))
         \o collect_all_leaves_items(Tail(items), current_path)

collect_all_leaves(node, current_path) ==
  IF is_leaf(node)
    THEN <<[title |-> DictGetDefault(node, "title", DefaultTitle),
            path |-> current_path,
            message |-> DictGetDefault(node, "message", <<>>)]>>
  ELSE IF isinstance_dict(node) /\ "children" \in DOMAIN node
         THEN collect_all_leaves_items(GetItem(node, "children"), current_path)
         ELSE <<>>

(***************************************************************************)
(* Telegram relay.  The environment answers a POST with a transport error  *)
(* (requests.post raises) or with a response of some status code;          *)
(* Response.raise_for_status raises HTTPError for a 4xx or 5xx status and  *)
(* for no other.                                                           *)
(***************************************************************************)
Statuses == {200, 304, 400, 500}

Outcomes ==
  {[error |-> "ConnectionError", status |-> 0]}
    \cup {[error |-> "", status |-> st] : st \in Statuses}

\* requests.post(url, json=payload) raises
PostRaises(outcome) == outcome.error # ""

\* response.raise_for_status() raises
RaiseForStatus(outcome) == 400 <= outcome.status /\ outcome.status < 600

\* str(e) of the exception caught
StrExc(outcome) ==
  IF PostRaises(outcome)
    THEN [name |-> outcome.error, status |-> 0]
    ELSE [name |-> "HTTPError", status |-> outcome.status]

NoExc == [name |-> "", status |-> 0]

\* html.escape (quote=True) of one piece of a text
EscapePiece(c) ==
  CASE c = "&" -> "&amp;"
    [] c = "<" -> "&lt;"
    [] c = ">" -> "&gt;"
    [] c = "\"" -> "&quot;"
    [] c = "'" -> "&#x27;"
    [] OTHER -> c

html_escape(message) == [k \in 1..Len(message) |-> EscapePiece(message[k])]

SleepMs == 500

PostEvent(bot_token, chat_id, message) ==
  [ev |-> "post", token |-> bot_token, chat_id |-> chat_id,
   text |-> html_escape(message), ms |-> 0]

SleepEvent == [ev |-> "sleep", token |-> "", chat_id |-> "", text |-> <<>>, ms |-> SleepMs]

\* the (success, message) pair send_telegram_message returns
send_telegram_message(bot_token, chat_id, message, outcome) ==
  IF PostRaises(outcome) \/ RaiseForStatus(outcome)
    THEN [success |-> FALSE, text |-> "Errore nell'invio: ", e |-> StrExc(outcome)]
    ELSE [success |-> TRUE, text |-> "Messaggio inviato con successo!", e |-> NoExc]

RECURSIVE send_loop(_, _, _, _, _, _)
\* send_loop, but the loop is left at the first send that fails
send_loop_abort(bot_token, chat_id, messages, outcomes, i, st) ==
  IF i >= Len(messages) THEN st
  ELSE LET r == send_telegram_message(bot_token, chat_id, messages[i + 1], outcomes[i + 1])
           log1 == st.log \o <<PostEvent(bot_token, chat_id, messages[i + 1]), SleepEvent>>
           failed1 == IF ~r.success
                        THEN Append(st.failed_messages, [num |-> i + 1, err |-> r])
                        ELSE st.failed_messages
           st1 == [failed_messages |-> failed1, log |-> log1]
       IN IF r.success
            THEN send_loop(bot_token, chat_id, messages, outcomes, i + 1, st1)
            ELSE st1

\* send_loop, but a failed send is recorded under its 0-based index
send_loop_zero_based(bot_token, chat_id, messages, outcomes, i, st) ==
  IF i >= Len(messages) THEN st
  ELSE LET r == send_telegram_message(bot_token, chat_id, messages[i + 1], outcomes[i + 1])
           log1 == st.log \o <<PostEvent(bot_token, chat_id, messages[i + 1]), SleepEvent>>
           failed1 == IF ~r.success
                        THEN Append(st.failed_messages, [num |-> i, err |-> r])
                        ELSE st.failed_messages
       IN send_loop(bot_token, chat_id, messages, outcomes, i + 1,
                    [failed_messages |-> failed1, log |-> log1])

\* the body of the loop of send_multiple_telegram_messages, from index i
\* (0-based) on: st is [failed_messages, log]
send_loop(bot_token, chat_id, messages, outcomes, i, st) ==
  IF i >= Len(messages) THEN st
  ELSE LET r == send_telegram_message(bot_token, chat_id, messages[i + 1], outcomes[i + 1])
           log1 == st.log \o <<PostEvent(bot_token, chat_id, messages[i + 1]), SleepEvent>>
           failed1 == IF ~r.success
                        THEN Append(st.failed_messages, [num |-> i + 1, err |-> r])
                        ELSE st.failed_messages
       IN send_loop(bot_token, chat_id, messages, outcomes, i + 1,
                    [failed_messages |-> failed1, log |-> log1])

\* the (success, message) pair send_multiple_telegram_messages returns, and
\* the outbound events it caused; outcomes[i] is the environment's answer to
\* the i-th POST
send_multiple_telegram_messages(bot_token, chat_id, messages, outcomes) ==
  LET st == send_loop(bot_token, chat_id, messages, outcomes, 0,
                      [failed_messages |-> <<>>, log |-> <<>>])
  IN IF st.failed_messages = <<>>
       THEN [success |-> TRUE, text |-> "Tutti i n messaggi inviati con successo!",
             n |-> Len(messages), error_details |-> <<>>, log |-> st.log]
       ELSE [success |-> FALSE, text |-> "Errori nell'invio: ",
             n |-> 0, error_details |-> st.failed_messages, log |-> st.log]

(***************************************************************************)
(* OpenAI client.  The environment answers chain.invoke with an exception  *)
(* or with a MessageResponse.                                              *)
(***************************************************************************)
ask_openai(question, llm) ==
  IF llm.error # ""
    THEN [success |-> FALSE, messages |-> <<>>,
          text |-> "Errore nella chiamata a OpenAI: ", e |-> llm.error]
    ELSE [success |-> TRUE, messages |-> llm.messages, text |-> "", e |-> ""]

InvokeEvent(question) ==
  [ev |-> "invoke", token |-> "", chat_id |-> "", text |-> question, ms |-> 0]

(***************************************************************************)
(* State.                                                                  *)
(***************************************************************************)
VARIABLES
  concept_map,   \* the loaded document
  applied,       \* which tree functions have been applied to concept_map
  resolved,      \* navigate_to_path(concept_map, p) for every p of Paths
  n_nodes,       \* count_nodes(concept_map)
  n_leaves,      \* count_leaves(concept_map)
  leaves,        \* collect_all_leaves(concept_map)
  messages,      \* the texts given to send_multiple_telegram_messages
  outcomes,      \* the environment's answers to the POSTs of the last call
  result,        \* what the last call of a client returned
  session_state, \* st.session_state
  TELEGRAM_BOT_TOKEN,
  TELEGRAM_CHAT_ID,
  OPENAI_API_KEY,
  calls,         \* the outbound events of the last handler, in order
  run,           \* the last script run: its navigation check and its view
  last_event     \* the widget event the last handler served

tvars == <<applied, resolved, n_nodes, n_leaves, leaves>>
svars == <<messages, outcomes, result>>
secrets == <<TELEGRAM_BOT_TOKEN, TELEGRAM_CHAT_ID, OPENAI_API_KEY>>
uvars == <<session_state, secrets, calls, run, last_event>>
vars == <<concept_map, tvars, svars, uvars>>

NoResult == [success |-> FALSE, text |-> "", n |-> 0, error_details |-> <<>>, log |-> <<>>]

TreeIdle ==
  /\ applied = "none"
  /\ resolved = <<>>
  /\ n_nodes = 0
  /\ n_leaves = 0
  /\ leaves = <<>>

SendIdle ==
  /\ messages = <<>>
  /\ outcomes = <<>>
  /\ result = NoResult

NoEvent == [type |-> "none", key |-> "", idx |-> 0]

SessionIdle ==
  /\ session_state = <<>>
  /\ TELEGRAM_BOT_TOKEN = ""
  /\ TELEGRAM_CHAT_ID = ""
  /\ OPENAI_API_KEY = ""
  /\ calls = <<>>
  /\ run = <<>>
  /\ last_event = NoEvent

(***************************************************************************)
(* The tree functions applied to every document.                           *)
(***************************************************************************)
TreeInit ==
  /\ concept_map \in Trees(MaxNodes)
  /\ TreeIdle
  /\ SendIdle
  /\ SessionIdle

ApplyTreeFunctions ==
  /\ applied = "none"
  /\ resolved' = [p \in Paths |-> navigate_to_path(concept_map, p)]
  /\ n_nodes' = count_nodes(concept_map)
  /\ n_leaves' = count_leaves(concept_map)
  /\ leaves' = collect_all_leaves(concept_map, <<>>)
  /\ applied' = "all"
  /\ UNCHANGED <<concept_map, svars, uvars>>

TreeNext == ApplyTreeFunctions

SpecTree == TreeInit /\ [][TreeNext]_vars

(***************************************************************************)
(* send_multiple_telegram_messages applied to every list of at most        *)
(* MaxMessages texts, under every pattern of answers.                      *)
(***************************************************************************)
Texts == {<<"x">>, <<"a", "<", "b">>}

RECURSIVE SeqsOfLen(_, _)
SeqsOfLen(S, n) ==
  IF n = 0 THEN {<<>>}
  ELSE {<<x>> \o q : x \in S, q \in SeqsOfLen(S, n - 1)}

SeqsUpTo(S, n) == UNION {SeqsOfLen(S, k) : k \in 0..n}

SendInit ==
  /\ concept_map = None
  /\ TreeIdle
  /\ SessionIdle
  /\ messages \in SeqsUpTo(Texts, MaxMessages)
  /\ outcomes = <<>>
  /\ result = NoResult

CallSendMany ==
  /\ result = NoResult
  /\ \E outs \in SeqsOfLen(Outcomes, Len(messages)) :
       /\ outcomes' = outs
       /\ result' = send_multiple_telegram_messages("tok", "42", messages, outs)
  /\ UNCHANGED <<concept_map, messages, tvars, uvars>>

SendNext == CallSendMany

SpecSend == SendInit /\ [][SendNext]_vars

(***************************************************************************)
(* Claims about send_multiple_telegram_messages (SpecSend).                *)
(***************************************************************************)
SendCalled == result # NoResult

IsPost(e) == e.ev = "post"

PostsOf(log) == SelectSeq(log, IsPost)

\* C1: whatever sends fail, send_multiple_telegram_messages attempts exactly
\* one POST per text, in the order of the list and never twice, and every
\* POST is followed by the fixed delay before anything else happens.
C1_AllSendsAttemptedInOrder ==
  SendCalled =>
    LET posts == PostsOf(result.log)
    IN /\ Len(posts) = Len(messages)
       /\ \A i \in 1..Len(messages) :
            posts[i] = [ev |-> "post", token |-> "tok", chat_id |-> "42",
                        text |-> html_escape(messages[i]), ms |-> 0]
       /\ \A k \in 1..Len(result.log) :
            result.log[k].ev = "post" =>
              /\ k < Len(result.log)
              /\ result.log[k + 1].ev = "sleep"
              /\ result.log[k + 1].ms = SleepMs
       /\ \A k \in 1..Len(result.log) : result.log[k].ev \in {"post", "sleep"}

\* Scenario 3 of the spec and its neighbours: three texts, a send that is
\* not the last fails, all three are attempted.
C1_Witness ==
  /\ SendCalled
  /\ Len(messages) = 3
  /\ messages[1] # messages[3]
  /\ outcomes[1].status = 200
  /\ outcomes[2].status = 500
  /\ outcomes[3].status = 200
  /\ Len(PostsOf(result.log)) = 3

SendSucceeded(i) ==
  outcomes[i].error = "" /\ ~(400 <= outcomes[i].status /\ outcomes[i].status < 600)

FailedSends == {i \in 1..Len(messages) : ~SendSucceeded(i)}

\* C2: send_multiple_telegram_messages returns success iff every send
\* succeeded; otherwise its message lists the 1-based indices of exactly the
\* sends that failed, ascending, each with the reason of that send.
C2_SuccessIffAllSucceeded ==
  SendCalled =>
    /\ result.success <=> FailedSends = {}
    /\ result.success => result.error_details = <<>> /\ result.n = Len(messages)
    /\ ~result.success =>
         /\ {result.error_details[k].num : k \in 1..Len(result.error_details)} = FailedSends
         /\ Len(result.error_details) = Cardinality(FailedSends)
         /\ \A k \in 1..(Len(result.error_details) - 1) :
              result.error_details[k].num < result.error_details[k + 1].num
         /\ \A k \in 1..Len(result.error_details) :
              LET d == result.error_details[k]
              IN /\ ~d.err.success
                 /\ d.err.e = StrExc(outcomes[d.num])

C2_Witness ==
  /\ SendCalled
  /\ Len(messages) = 3
  /\ FailedSends = {1, 3}
  /\ ~result.success
  /\ Len(result.error_details) = 2
  /\ outcomes[1].error = "ConnectionError"
  /\ outcomes[3].status = 400

(***************************************************************************)
(* Claims about the tree functions (SpecTree).                             *)
(***************************************************************************)
Applied == applied = "all"

Front(p) == SubSeq(p, 1, Len(p) - 1)

Last(p) == p[Len(p)]

HasChildren(node) == isinstance_dict(node) /\ "children" \in DOMAIN node

ChildKeys(node) == {node.children[i].key : i \in 1..Len(node.children)}

KeyIndex(node, key) == CHOOSE i \in 1..Len(node.children) : node.children[i].key = key

\* the first position at which two paths differ, 0 if one is a prefix of the other
FirstDiff(p, q) ==
  LET m == IF Len(p) < Len(q) THEN Len(p) ELSE Len(q)
      D == {d \in 1..m : p[d] # q[d]}
  IN IF D = {} THEN 0 ELSE CHOOSE d \in D : \A e \in D : d <= e

\* C5: collect_all_leaves returns count_leaves entries; every entry's path
\* resolves to a leaf carrying the entry's message; every path that resolves
\* to a leaf is the path of exactly one entry; and the entries are in
\* depth-first order, siblings in the order of their children mapping.
C5_CollectLeavesMatchesResolve ==
  Applied =>
    /\ Len(leaves) = n_leaves
    /\ \A i \in 1..Len(leaves) :
         /\ leaves[i].path \in Paths
         /\ is_leaf(resolved[leaves[i].path])
         /\ resolved[leaves[i].path].message = leaves[i].message
         /\ leaves[i].title =
              (IF "title" \in DOMAIN resolved[leaves[i].path]
                 THEN resolved[leaves[i].path].title ELSE "Senza titolo")
    /\ \A p \in Paths :
         is_leaf(resolved[p]) =>
           Cardinality({i \in 1..Len(leaves) : leaves[i].path = p}) = 1
    /\ \A i, j \in 1..Len(leaves) :
         i < j =>
           LET p == leaves[i].path
               q == leaves[j].path
               d == FirstDiff(p, q)
           IN /\ d > 0
              /\ KeyIndex(resolved[SubSeq(p, 1, d - 1)], p[d])
                   < KeyIndex(resolved[SubSeq(p, 1, d - 1)], q[d])

\* a nested leaf of the first child comes before the second child, and the
\* first child is the one inserted first, not the alphabetically first
C5_Witness ==
  /\ Applied
  /\ Len(leaves) = 2
  /\ leaves[1].path = <<"b", "a">>
  /\ leaves[2].path = <<"a">>
  /\ leaves[1].message # leaves[2].message

RECURSIVE WellFormed(_)
\* the data model's invariant: every node is a mapping with exactly one of
\* children and message
WellFormed(node) ==
  /\ isinstance_dict(node)
  /\ ("children" \in DOMAIN node) # ("message" \in DOMAIN node)
  /\ "children" \in DOMAIN node =>
       \A i \in 1..Len(node.children) : WellFormed(node.children[i].node)

RECURSIVE CategoryCount(_), CategoryCountItems(_)
\* the category nodes below node, node itself excluded
CategoryCountItems(items) ==
  IF items = <<>> THEN 0
  ELSE (IF HasChildren(Head(items).node) THEN 1 ELSE 0)
         + CategoryCount(Head(items).node) + CategoryCountItems(Tail(items))

CategoryCount(node) ==
  IF HasChildren(node) THEN CategoryCountItems(node.children) ELSE 0

\* C6 as stated: for any well-formed tree,
\* count_nodes(root) = count_leaves(root) + the category nodes other than root.
C6_Original ==
  (Applied /\ WellFormed(concept_map)) =>
    n_nodes = n_leaves + CategoryCount(concept_map)

\* C6, amended: for any well-formed tree whose root is not itself a leaf,
\* count_nodes(root) = count_leaves(root) + the category nodes other than root.
C6_CountIdentity ==
  (Applied /\ WellFormed(concept_map) /\ ~is_leaf(concept_map)) =>
    n_nodes = n_leaves + CategoryCount(concept_map)

C6_Witness ==
  /\ Applied
  /\ WellFormed(concept_map)
  /\ ~is_leaf(concept_map)
  /\ n_nodes = 3
  /\ n_leaves = 2
  /\ CategoryCount(concept_map) = 1

\* C7: navigate_to_path returns the root for the empty path, and None for
\* every path one of whose keys is not in the children mapping of the node
\* reached so far, or is looked up in a node without children (at any depth:
\* a path whose prefix is None is None).
C7_ResolveNoneOnMissingKey ==
  Applied =>
    /\ resolved[<<>>] = concept_map
    /\ \A p \in Paths \ {<<>>} :
         LET parent == resolved[Front(p)]
         IN (\/ parent = None
             \/ ~HasChildren(parent)
             \/ Last(p) \notin ChildKeys(parent))
              => resolved[p] = None

\* a key missing at depth 2 below a child that is there, a key missing at
\* depth 1, and a descent from a leaf
C7_Witness ==
  /\ Applied
  /\ HasChildren(concept_map)
  /\ HasChildren(resolved[<<"a">>])
  /\ resolved[<<"a", "a">>] # None
  /\ is_leaf(resolved[<<"a", "a">>])
  /\ resolved[<<"a", "b">>] = None
  /\ resolved[<<"b">>] = None
  /\ resolved[<<"a", "a", "a">>] = None


(***************************************************************************)
(* The session.  One action is one script run of main() serving one widget *)
(* event, together with the runs st.rerun() starts, up to the run that     *)
(* renders the page.  A widget can fire only in a run that instantiates    *)
(* it, so the guards are computed from the document and the session state  *)
(* of that run.                                                            *)
(*                                                                         *)
(* The documents of a session are JSON objects; between them they hold     *)
(* every kind of node at the root and below it: categories two levels      *)
(* deep, leaves with and without a title, a node with both children and    *)
(* message, a node with neither, an empty children mapping, a null and a   *)
(* scalar child, and leaves whose search buttons share a key.              *)
(***************************************************************************)
LeafM == [message |-> <<"M">>]
LeafN == [message |-> <<"N">>]
LeafT == [message |-> <<"N">>, title |-> "T"]
Bare == [title |-> "T"]

Item(k, n) == [key |-> k, node |-> n]

DocNested ==
  [title |-> "T",
   children |-> <<Item("b", [children |-> <<Item("a", LeafM), Item("b", LeafT)>>]),
                  Item("a", LeafN)>>]

DocBoth ==
  [children |-> <<Item("a", [message |-> <<"B">>,
                             children |-> <<Item("a", LeafM)>>]),
                  Item("b", Bare)>>]

DocNull == [children |-> <<Item("a", None), Item("b", Scalar)>>]

DocTwins == [children |-> <<Item("a", LeafM), Item("b", LeafN)>>]

DocDeep ==
  [children |-> <<Item("a", [children |-> <<Item("a", [children |-> <<Item("b", LeafT)>>])>>])>>]

DocEmpty == [children |-> <<>>]

DocBothEmpty == [message |-> <<"B">>, children |-> <<>>]

SessionDocs ==
  {DocNested, DocBoth, DocNull, DocTwins, DocDeep, DocEmpty, DocBothEmpty, LeafM, Bare}

Tokens == {"", "123:ABC"}
ChatIds == {"", "42"}
ApiKeys == {"", "sk-1"}

Questions == {<<"2+2?">>, <<" ">>}

\* user_question.strip() is empty
IsBlank(question) == \A k \in 1..Len(question) : question[k] = " "

AnswerTexts == {<<"4">>}

LlmOutcomes ==
  {[error |-> "APIConnectionError", messages |-> <<>>]}
    \cup {[error |-> "", messages |-> m] :
            m \in UNION {SeqsOfLen(AnswerTexts, n) : n \in 1..MaxAnswer}}

\* the answers drawn for the POSTs that relay an AI answer: one that
\* succeeds and one that fails (SendLeaf and CallSendMany draw from all)
RelayOutcomes == {o \in Outcomes : o.status \in {200, 500}}

\* main, lines 432-440
InitialSessionState ==
  [current_path |-> <<>>, message_sent |-> FALSE,
   show_ai_modal |-> FALSE, show_search |-> FALSE]

\* `if children:` of main
Truthy(children) == children # None /\ children.items # <<>>

\* SendConfigured, but only the token is tested
SendConfiguredTokenOnly(telegram_bot_token, telegram_chat_id) ==
  ~(telegram_bot_token = "")

\* render_leaf_node's test for the send button
SendConfigured(telegram_bot_token, telegram_chat_id) ==
  ~(telegram_bot_token = "" \/ telegram_chat_id = "")

\* main, lines 515-522, with render_leaf_node and render_category_node: what
\* the page shows for current_node
RenderNode(current_node, telegram_bot_token, telegram_chat_id) ==
  IF is_leaf(current_node)
    THEN [kind |-> "leaf",
          message |-> DictGetDefault(current_node, "message",
                                     <<"Nessun messaggio disponibile">>),
          send_button |-> SendConfigured(telegram_bot_token, telegram_chat_id),
          buttons |-> <<>>]
    ELSE LET children == get_children(current_node)
         IN IF Truthy(children)
              THEN [kind |-> "category", message |-> <<>>, send_button |-> FALSE,
                    buttons |-> [i \in 1..Len(children.items) |-> children.items[i].key]]
              ELSE [kind |-> "empty", message |-> <<>>, send_button |-> FALSE,
                    buttons |-> <<>>]

\* NavigationCheck, but a path that does not resolve is kept
NavigationCheckNoReset(data, path) == path

\* main, lines 501-506: the path the page is rendered for
NavigationCheck(data, path) ==
  IF navigate_to_path(data, path) = None THEN <<>> ELSE path

\* the run that renders the page, from the breadcrumb on, for the session
\* state ss the event has left
RunRecord(data, ss, token, chat, key) ==
  LET path == NavigationCheck(data, ss.current_path)
  IN [fresh |-> TRUE,
      nav_path |-> ss.current_path,
      reset |-> navigate_to_path(data, ss.current_path) = None,
      path |-> path,
      back_button |-> path # <<>>,
      search_bar |-> ss.show_search,
      ai_form |-> ss.show_ai_modal /\ key # "",
      view |-> RenderNode(navigate_to_path(data, path), token, chat)]

\* st.session_state.current_path.append(key)
PathAppend(path, key) == Append(path, key)

\* PathPop, but the first key is dropped
PathPopFirst(path) == SubSeq(path, 2, Len(path))

\* st.session_state.current_path.pop()
PathPop(path) == SubSeq(path, 1, Len(path) - 1)

\* `search_query.lower() in title.lower()` for the queries of the model
Queries == {"t", "senza", "zz"}

Matches(query, title) ==
  CASE query = "t" -> title \in {"T", "Senza titolo"}
    [] query = "senza" -> title = "Senza titolo"
    [] OTHER -> FALSE

SearchLimit == 10

\* render_search_bar: the results shown for a query
SearchResults(data, query) ==
  LET all_leaves == collect_all_leaves(data, <<>>)
      Match(l) == Matches(query, l.title)
      matching_leaves == SelectSeq(all_leaves, Match)
  IN SubSeq(matching_leaves, 1,
            IF Len(matching_leaves) < SearchLimit THEN Len(matching_leaves)
            ELSE SearchLimit)

\* the key of a result's button
SearchKey(l) == <<l.title, Len(l.path)>>

\* the i-th result's button is instantiated: no button before it, nor itself,
\* repeats the key of an earlier one (the run ends there with
\* DuplicateWidgetID)
SearchButtonShown(shown, i) ==
  /\ i \in 1..Len(shown)
  /\ \A j, k \in 1..i : j < k => SearchKey(shown[j]) # SearchKey(shown[k])

\* render_ai_modal, lines 304-312
MessagesToSend(user_question, ai_response) ==
  <<(<<"Domanda: ">> \o user_question)>>
    \o (IF Len(ai_response) = 1
          THEN <<(<<"Risposta AI:\n">> \o ai_response[1])>>
          ELSE [i \in 1..Len(ai_response) |->
                  <<"Risposta AI (parte ", ToString(i), "/",
                    ToString(Len(ai_response)), "):\n">> \o ai_response[i]])

SessionInit ==
  /\ concept_map \in SessionDocs
  /\ TreeIdle
  /\ SendIdle
  /\ session_state = InitialSessionState
  /\ TELEGRAM_BOT_TOKEN \in Tokens
  /\ TELEGRAM_CHAT_ID \in ChatIds
  /\ OPENAI_API_KEY \in ApiKeys
  /\ calls = <<>>
  /\ run = RunRecord(concept_map, InitialSessionState,
                     TELEGRAM_BOT_TOKEN, TELEGRAM_CHAT_ID, OPENAI_API_KEY)
  /\ last_event = [type |-> "load", key |-> "", idx |-> 0]

\* the end of every handler: the run that renders the page for the session
\* state ss the event has left, and what the handler has called
Handle(ss, ev, net, outs, res) ==
  /\ session_state' =
       [ss EXCEPT !.current_path = NavigationCheck(concept_map, ss.current_path)]
  /\ run' = RunRecord(concept_map, ss,
                      TELEGRAM_BOT_TOKEN, TELEGRAM_CHAT_ID, OPENAI_API_KEY)
  /\ last_event' = ev
  /\ calls' = net
  /\ outcomes' = outs
  /\ result' = res
  /\ UNCHANGED <<concept_map, secrets, tvars, messages>>

\* a run no widget fires in
Refresh ==
  Handle(session_state, [type |-> "refresh", key |-> "", idx |-> 0],
         <<>>, <<>>, NoResult)

\* main, lines 462-463
ClickSearch ==
  Handle([session_state EXCEPT !.show_search = TRUE],
         [type |-> "search", key |-> "", idx |-> 0], <<>>, <<>>, NoResult)

\* main, lines 466-467
ClickAI ==
  Handle([session_state EXCEPT !.show_ai_modal = TRUE],
         [type |-> "ai", key |-> "", idx |-> 0], <<>>, <<>>, NoResult)

\* main, lines 474-476
CloseSearch ==
  /\ session_state.show_search
  /\ Handle([session_state EXCEPT !.show_search = FALSE],
            [type |-> "close_search", key |-> "", idx |-> 0], <<>>, <<>>, NoResult)

\* render_search_bar, lines 236-240
SearchJump ==
  /\ session_state.show_search
  /\ \E query \in Queries :
       LET shown == SearchResults(concept_map, query)
       IN \E i \in 1..Len(shown) :
            /\ SearchButtonShown(shown, i)
            /\ Handle([session_state EXCEPT !.current_path = shown[i].path,
                                            !.message_sent = FALSE,
                                            !.show_search = FALSE],
                      [type |-> "jump", key |-> query, idx |-> i],
                      <<>>, <<>>, NoResult)

\* render_ai_modal, lines 258-265: the form is rendered
AIFormShown == session_state.show_ai_modal /\ OPENAI_API_KEY # ""

\* render_ai_modal, lines 331-333
AICancel ==
  /\ AIFormShown
  /\ Handle([session_state EXCEPT !.show_ai_modal = FALSE],
            [type |-> "ai_cancel", key |-> "", idx |-> 0], <<>>, <<>>, NoResult)

\* render_ai_modal, lines 280-329
AISubmit ==
  /\ AIFormShown
  /\ \E user_question \in Questions, llm \in LlmOutcomes :
       LET ev == [type |-> "ai_submit", key |-> "", idx |-> 0]
           ai == ask_openai(user_question, llm)
           relay == TELEGRAM_BOT_TOKEN # "" /\ TELEGRAM_CHAT_ID # ""
           messages_to_send == MessagesToSend(user_question, ai.messages)
       IN IF IsBlank(user_question)
            THEN Handle(session_state, ev, <<>>, <<>>, NoResult)
          ELSE IF ~ai.success
            THEN Handle(session_state, ev, <<InvokeEvent(user_question)>>, <<>>,
                        [ask |-> ai, llm |-> llm, telegram |-> NoResult])
          ELSE IF ~relay
            THEN Handle([session_state EXCEPT !.show_ai_modal = FALSE], ev,
                        <<InvokeEvent(user_question)>>, <<>>,
                        [ask |-> ai, llm |-> llm, telegram |-> NoResult])
          ELSE \E outs \in SeqsOfLen(RelayOutcomes, Len(messages_to_send)) :
                 LET tg == send_multiple_telegram_messages(
                             TELEGRAM_BOT_TOKEN, TELEGRAM_CHAT_ID,
                             messages_to_send, outs)
                 IN Handle([session_state EXCEPT !.show_ai_modal = FALSE], ev,
                           <<InvokeEvent(user_question)>> \o tg.log, outs,
                           [ask |-> ai, llm |-> llm, telegram |-> tg])

\* main, line 485: the Back button is rendered
BackShown == session_state.current_path # <<>>

\* main, lines 491-494
Back ==
  /\ BackShown
  /\ Handle([session_state EXCEPT !.current_path = PathPop(@),
                                  !.message_sent = FALSE],
            [type |-> "back", key |-> "", idx |-> 0], <<>>, <<>>, NoResult)

\* render_category_node, lines 382-387
\* main, lines 501-520: the child buttons are rendered
ChildButtonsShown ==
  LET current_node == navigate_to_path(concept_map, session_state.current_path)
  IN /\ current_node # None
     /\ ~is_leaf(current_node)
     /\ Truthy(get_children(current_node))

EnterChild ==
  LET current_node == navigate_to_path(concept_map, session_state.current_path)
      children == get_children(current_node)
  IN /\ ChildButtonsShown
     /\ \E i \in 1..Len(children.items) :
          Handle([session_state EXCEPT
                    !.current_path = PathAppend(@, children.items[i].key),
                    !.message_sent = FALSE],
                 [type |-> "enter", key |-> children.items[i].key, idx |-> i],
                 <<>>, <<>>, NoResult)

\* render_leaf_node, lines 352-363
\* main, lines 501-516, and render_leaf_node, lines 344-352: the send
\* button is rendered
SendButtonShown ==
  LET current_node == navigate_to_path(concept_map, session_state.current_path)
  IN /\ current_node # None
     /\ is_leaf(current_node)
     /\ SendConfigured(TELEGRAM_BOT_TOKEN, TELEGRAM_CHAT_ID)

SendLeaf ==
  LET current_node == navigate_to_path(concept_map, session_state.current_path)
      message == DictGetDefault(current_node, "message",
                                <<"Nessun messaggio disponibile">>)
  IN /\ SendButtonShown
     /\ \E outcome \in Outcomes :
          LET r == send_telegram_message(TELEGRAM_BOT_TOKEN, TELEGRAM_CHAT_ID,
                                         message, outcome)
          IN Handle([session_state EXCEPT !.message_sent = IF r.success THEN TRUE ELSE @],
                    [type |-> "send", key |-> "", idx |-> 0],
                    <<PostEvent(TELEGRAM_BOT_TOKEN, TELEGRAM_CHAT_ID, message)>>,
                    <<outcome>>, r)

UserAction ==
  \/ Refresh
  \/ ClickSearch
  \/ ClickAI
  \/ CloseSearch
  \/ SearchJump
  \/ AICancel
  \/ AISubmit
  \/ Back
  \/ EnterChild
  \/ SendLeaf

Spec == SessionInit /\ [][UserAction]_vars

\* load_concept_map runs again (its cache was cleared) on a file that has
\* changed; the page is the one last rendered until the next run
ReloadDocument ==
  /\ \E data \in SessionDocs :
       /\ data # concept_map
       /\ concept_map' = data
  /\ run' = [run EXCEPT !.fresh = FALSE]
  /\ last_event' = [type |-> "reload", key |-> "", idx |-> 0]
  /\ calls' = <<>>
  /\ outcomes' = <<>>
  /\ result' = NoResult
  /\ UNCHANGED <<session_state, secrets, tvars, messages>>

ReloadNext == UserAction \/ ReloadDocument

SpecReload == SessionInit /\ [][ReloadNext]_vars


(***************************************************************************)
(* Claims about the session (Spec, SpecReload).                            *)
(***************************************************************************)
CurrentNode == navigate_to_path(concept_map, session_state.current_path)

ButtonKeys(node) == [i \in 1..Len(node.children) |-> node.children[i].key]

C4_Original ==
  /\ last_event.type = "send" =>
       /\ result.success <=>
            (outcomes[1].error = "" /\ outcomes[1].status \in 200..299)
       /\ ~result.success => result.e # NoExc
       /\ Len(calls) = 1
       /\ calls[1].ev = "post"
  /\ (last_event.type = "ai_submit" /\ result # NoResult) =>
       /\ result.ask.success <=> result.llm.error = ""
       /\ result.ask.success => result.ask.messages = result.llm.messages
       /\ ~result.ask.success => result.ask.e = result.llm.error
       /\ Cardinality({k \in 1..Len(calls) : calls[k].ev = "invoke"}) = 1

\* C8: no POST is issued while the bot token or the chat id is empty, no
\* completion is requested while the API key is empty, neither is offered
\* then, and the child buttons and Back are there whatever the secrets are.
C8_NoCallWithoutCredentials ==
  /\ \A k \in 1..Len(calls) :
       /\ calls[k].ev = "post" =>
            /\ TELEGRAM_BOT_TOKEN # "" /\ TELEGRAM_CHAT_ID # ""
            /\ calls[k].token = TELEGRAM_BOT_TOKEN
            /\ calls[k].chat_id = TELEGRAM_CHAT_ID
       /\ calls[k].ev = "invoke" => OPENAI_API_KEY # ""
  /\ run.view.send_button => (TELEGRAM_BOT_TOKEN # "" /\ TELEGRAM_CHAT_ID # "")
  /\ run.ai_form => OPENAI_API_KEY # ""
  /\ (TELEGRAM_BOT_TOKEN = "" \/ TELEGRAM_CHAT_ID = "") => ~SendButtonShown
  /\ OPENAI_API_KEY = "" => ~AIFormShown
  /\ (HasChildren(CurrentNode) /\ CurrentNode.children # <<>>) =>
       /\ run.view.buttons = ButtonKeys(CurrentNode)
       /\ ChildButtonsShown
  /\ run.back_button <=> session_state.current_path # <<>>
  /\ session_state.current_path # <<>> => BackShown

\* with the token set and the chat id missing, the user is on a leaf two
\* levels down, the AI modal open: no send button, Back is there
C8_Witness ==
  /\ TELEGRAM_BOT_TOKEN # ""
  /\ TELEGRAM_CHAT_ID = ""
  /\ OPENAI_API_KEY = ""
  /\ session_state.show_ai_modal
  /\ Len(session_state.current_path) = 2
  /\ is_leaf(CurrentNode)
  /\ ~run.view.send_button
  /\ run.back_button

\* the path a handler asks for: the event's change to the current path
RequestedPath(ev, data, path) ==
  CASE ev.type = "enter" -> Append(path, ev.key)
    [] ev.type = "back" -> Front(path)
    [] ev.type = "jump" -> SearchResults(data, ev.key)[ev.idx].path
    [] OTHER -> path

\* C9: no user action changes the document, and the current path becomes
\* path + [key] on entering a child, the path without its last key on Back,
\* the chosen leaf's path on a search jump, and stays as it is otherwise, or
\* the empty path if that path does not resolve.
C9_Step ==
  last_event'.type # "reload" =>
    /\ concept_map' = concept_map
    /\ LET requested ==
             RequestedPath(last_event', concept_map, session_state.current_path)
       IN session_state'.current_path =
            IF navigate_to_path(concept_map, requested) = None
              THEN <<>> ELSE requested

C9_DocumentUnchangedPathUpdated == [][C9_Step]_vars

\* Back from three keys down has left the first two keys
C9_Witness ==
  /\ last_event.type = "back"
  /\ session_state.current_path = <<"a", "a">>
  /\ concept_map = DocDeep

RECURSIVE SumLeaves(_)
SumLeaves(items) ==
  IF items = <<>> THEN 0
  ELSE count_leaves(Head(items).node) + SumLeaves(Tail(items))

IsMapping(node) == \A f \in DOMAIN node : f \in {"title", "message", "children"}

\* C10: is_leaf holds of exactly the mappings with a message and no
\* children; a node with both is rendered as a category, with its child
\* buttons and no send action, and its leaves are its children's; a node
\* with neither is rendered as an empty category, with no button and no send
\* action.
C10_ChildrenWins ==
  run.fresh =>
    /\ is_leaf(CurrentNode) <=>
         (IsMapping(CurrentNode) /\ {"message", "children"} \cap DOMAIN CurrentNode = {"message"})
    /\ run.view.kind = "leaf" <=> is_leaf(CurrentNode)
    /\ (IsMapping(CurrentNode) /\ {"message", "children"} \subseteq DOMAIN CurrentNode) =>
         /\ run.view.kind = (IF CurrentNode.children = <<>> THEN "empty" ELSE "category")
         /\ run.view.buttons = ButtonKeys(CurrentNode)
         /\ ~run.view.send_button
         /\ ~SendButtonShown
         /\ count_leaves(CurrentNode) = SumLeaves(CurrentNode.children)
    /\ (IsMapping(CurrentNode) /\ {"message", "children"} \cap DOMAIN CurrentNode = {}) =>
         /\ run.view.kind = "empty"
         /\ run.view.buttons = <<>>
         /\ ~run.view.send_button
         /\ ~SendButtonShown
         /\ ~ChildButtonsShown
         /\ count_leaves(CurrentNode) = 0

\* the user has entered a node with both fields, the secrets all set
C10_Witness ==
  /\ session_state.current_path = <<"a">>
  /\ {"message", "children"} \subseteq DOMAIN CurrentNode
  /\ TELEGRAM_BOT_TOKEN # ""
  /\ TELEGRAM_CHAT_ID # ""
  /\ run.view.kind = "category"
  /\ run.view.buttons = <<"a">>
  /\ count_leaves(CurrentNode) = 1

\* no node of the document is JSON null
RECURSIVE NoNullNode(_)
NoNullNode(node) ==
  /\ node # None
  /\ HasChildren(node) =>
       \A i \in 1..Len(node.children) : NoNullNode(node.children[i].node)

\* C11 as stated: with the document fixed and the path empty at the start,
\* whatever buttons the user clicks (a child of the rendered node, Back, a
\* search result, the modals), the path every run navigates to resolves, so
\* no run takes the reset-to-root branch.
C11_Original ==
  /\ navigate_to_path(concept_map, run.nav_path) # None
  /\ ~run.reset

\* C11 for the documents without a null node: the path every run navigates
\* to resolves to the node the page is rendered for.
C11_ResolvesWithoutNullNodes ==
  NoNullNode(concept_map) =>
    /\ navigate_to_path(concept_map, run.nav_path) # None
    /\ ~run.reset
    /\ run.path = run.nav_path

\* the user went two keys deep, by child buttons or by a search result, in a
\* document without a null node
C11_Witness ==
  /\ NoNullNode(concept_map)
  /\ Len(run.nav_path) = 2
  /\ last_event.type \in {"enter", "jump"}
  /\ ~run.reset

====
